---- MODULE Spec2Model ----
(***************************************************************************)
(* Semantic locator engine of sapscriptwizard: SapElementFinder            *)
(* (src/element_finder.py) with the geometry of src/locator_helpers.py.    *)
(*                                                                         *)
(* Python strings are modelled as sequences of one-character strings, so   *)
(* that strip(), startswith(), split(), isdigit() are computed character   *)
(* by character.  Optional[str] = None is the one-element sequence         *)
(* <<"None">>, which no character sequence equals.                         *)
(***************************************************************************)
EXTENDS Integers, Sequences, FiniteSets, TLC

VARIABLES
    \* --- the SAP GUI session (external collaborator) ---
    session_ok,            \* COM reads of the session/window succeed
    active_window_id,      \* session_handle.ActiveWindow.Id
    screen,                \* children of the active window's root, in order
    faults,                \* the component whose property reads go wrong
    \* --- SapElementFinder fields ---
    element_cache,         \* _element_cache: ordered dict type -> [ElementInfo]
    cache_window_id,       \* _cache_window_id
    \* --- the find_element call in progress ---
    pc,                    \* position inside find_element
    locator_str,           \* argument
    target_element_types,  \* argument (NoneTypes = None)
    current_window_id,     \* local of _check_and_refresh_cache
    queue,                 \* local of _scan_window_elements
    processed_ids,         \* local of _scan_window_elements
    strategy,              \* local: result of _parse_locator
    result,                \* what the call returns or raises
    calls_left,            \* calls the client still makes
    \* --- observation of the calls (history) ---
    window_reads,          \* reads of session_handle.ActiveWindow in this call
    call_scans,            \* _scan_window_elements entries in this call
    prev_call,             \* what the previous call observed
    cleared_id,            \* _cache_window_id a failed call dropped, until
                           \* the next scan has run
    \* --- _parse_locator called on its own ---
    parse_in,
    parse_out,
    \* --- the Position predicates called on their own ---
    geom_in,
    geom_out,
    \* --- a client that repeats one call ---
    repeat                 \* its arguments and the outcome it got last

envVars    == <<session_ok, active_window_id, screen, faults>>
finderVars == <<element_cache, cache_window_id>>
callVars   == <<pc, locator_str, target_element_types, current_window_id,
                strategy, result, calls_left>>
scanVars   == <<queue, processed_ids>>
histVars   == <<window_reads, call_scans, prev_call, cleared_id>>
parseVars  == <<parse_in, parse_out>>
geomVars   == <<geom_in, geom_out>>
vars       == <<envVars, finderVars, callVars, scanVars, histVars, parseVars,
                geomVars, repeat>>

----------------------------------------------------------------------------
(* Bounds of the model *)

\* longest generated locator string given to _parse_locator
MaxLen == 4
\* most children of the window root in a generated screen
MaxElems == 3
\* find_element calls made on one finder
MaxCalls == 3
\* largest coordinate, width, height and tolerance given to the alignment
\* predicates of Position
MaxCoord == 2
\* most controls of a generated form (labels and the fields around them)
MaxLayout == 4

----------------------------------------------------------------------------
(* Python str operations on character sequences *)

None == <<"None">>

Whitespace == {" "}
Digits == {"0", "1", "2", "3", "4", "5", "6", "7", "8", "9"}

RECURSIVE lstrip(_, _)
lstrip(s, chars) ==
    IF s # <<>> /\ Head(s) \in chars THEN lstrip(Tail(s), chars) ELSE s

RECURSIVE rstrip(_, _)
rstrip(s, chars) ==
    IF s # <<>> /\ s[Len(s)] \in chars
    THEN rstrip(SubSeq(s, 1, Len(s) - 1), chars) ELSE s

\* str.strip(chars); str.strip() is strip(s, Whitespace)
strip(s, chars) == rstrip(lstrip(s, chars), chars)

startswith(s, prefix) ==
    Len(s) >= Len(prefix) /\ SubSeq(s, 1, Len(prefix)) = prefix

\* mutant of find: the last occurrence instead of the first
find_last(s, sub) ==
    LET hits == {i \in 1..(Len(s) - Len(sub) + 1) :
                    SubSeq(s, i, i + Len(sub) - 1) = sub}
    IN  IF hits = {} THEN 0 ELSE CHOOSE i \in hits : \A j \in hits : i >= j

\* str.find: index (1-based) of the first occurrence of sub in s, 0 if none
find(s, sub) ==
    LET hits == {i \in 1..(Len(s) - Len(sub) + 1) :
                    SubSeq(s, i, i + Len(sub) - 1) = sub}
    IN  IF hits = {} THEN 0 ELSE CHOOSE i \in hits : \A j \in hits : i <= j

\* sub in s
contains(s, sub) == find(s, sub) # 0

\* s.split(sep, 1) when sep is in s: the parts before and after the first sep
split1(s, sep) ==
    LET i == find(s, sep)
    IN  <<SubSeq(s, 1, i - 1), SubSeq(s, i + Len(sep), Len(s))>>

\* str.isdigit() on the modelled alphabet
isdigit(s) == s # <<>> /\ \A i \in 1..Len(s) : s[i] \in Digits

----------------------------------------------------------------------------
(* LocatorStrategy values and the outcomes of _parse_locator *)

ContentLocator(value) == [kind |-> "ContentLocator", a |-> value, b |-> <<>>]
HLabelLocator(label) == [kind |-> "HLabelLocator", a |-> label, b |-> <<>>]
VLabelLocator(label) == [kind |-> "VLabelLocator", a |-> label, b |-> <<>>]
HLabelVLabelLocator(h_label, v_label) ==
    [kind |-> "HLabelVLabelLocator", a |-> h_label, b |-> v_label]
HLabelHLabelLocator(left_label, right_label) ==
    [kind |-> "HLabelHLabelLocator", a |-> left_label, b |-> right_label]
\* raise ValueError(...) / raise NotImplementedError(...)
Raise(exc) == [kind |-> exc, a |-> <<>>, b |-> <<>>]
NoStrategy == [kind |-> "none", a |-> <<>>, b |-> <<>>]

\* mutant of parse_at: the pure-digit test is dropped
parse_at_no_index(left, right) ==
    IF left = <<>> /\ right # <<>> THEN VLabelLocator(right)
    ELSE IF left # <<>> /\ right # <<>>
         THEN HLabelVLabelLocator(strip(left, {"\""}), strip(right, {"\""}))
         ELSE Raise("ValueError")

\* mutant of parse_at: an index on either side is an unsupported locator,
\* also when both sides are indexes
parse_at_any_index(left, right) ==
    IF left = <<>> /\ right # <<>> THEN VLabelLocator(right)
    ELSE IF left # <<>> /\ right # <<>>
         THEN IF isdigit(left) \/ isdigit(right)
              THEN Raise("NotImplementedError")
              ELSE HLabelVLabelLocator(strip(left, {"\""}), strip(right, {"\""}))
         ELSE Raise("ValueError")

\* mutant of parse_at: the quotes are stripped before the pure-digit test
parse_at_quotes_first(left, right) ==
    IF left = <<>> /\ right # <<>> THEN VLabelLocator(right)
    ELSE IF left # <<>> /\ right # <<>>
         THEN LET h_label == strip(left, {"\""})
                  v_label == strip(right, {"\""})
              IN  IF isdigit(h_label) /\ isdigit(v_label)
                  THEN Raise("ValueError")
                  ELSE IF isdigit(h_label) \/ isdigit(v_label)
                  THEN Raise("NotImplementedError")
                  ELSE HLabelVLabelLocator(h_label, v_label)
         ELSE Raise("ValueError")

\* _parse_locator, rule 3: left and right are the stripped parts around the
\* first '@'
parse_at(left, right) ==
    IF left = <<>> /\ right # <<>> THEN VLabelLocator(right)
    ELSE IF left # <<>> /\ right # <<>>
         THEN LET left_is_index == isdigit(left)
                  right_is_index == isdigit(right)
              IN  IF left_is_index /\ ~right_is_index
                  THEN Raise("NotImplementedError")
                  ELSE IF ~left_is_index /\ right_is_index
                  THEN Raise("NotImplementedError")
                  ELSE IF ~left_is_index /\ ~right_is_index
                  THEN HLabelVLabelLocator(strip(left, {"\""}),
                                           strip(right, {"\""}))
                  ELSE Raise("ValueError")
         ELSE Raise("ValueError")

\* _parse_locator
parse_locator(raw) ==
    LET s == strip(raw, Whitespace)
    IN  IF startswith(s, <<"=">>)
        THEN ContentLocator(strip(Tail(s), Whitespace))
        ELSE IF contains(s, <<">", ">">>)
        THEN LET parts == split1(s, <<">", ">">>)
                 p0 == strip(parts[1], Whitespace)
                 p1 == strip(parts[2], Whitespace)
             IN  IF p0 # <<>> /\ p1 # <<>>
                 THEN HLabelHLabelLocator(p0, p1)
                 ELSE Raise("ValueError")
        ELSE IF contains(s, <<"@">>)
        THEN LET parts == split1(s, <<"@">>)
             IN  parse_at(strip(parts[1], Whitespace),
                          strip(parts[2], Whitespace))
        ELSE IF s # <<>>
        THEN HLabelLocator(s)
        ELSE Raise("ValueError")

ParseErrors == {"ValueError", "NotImplementedError"}

----------------------------------------------------------------------------
(* Locator strings *)

Str_eqSave == <<"=", "S", "a", "v", "e">>
Str_User == <<"U", "s", "e", "r">>
Str_atPassword == <<"@", " ", "P", "a", "s", "s", "w", "o", "r", "d">>
Str_UserAtPassword ==
    <<"U", "s", "e", "r", " ", "@", " ", "P", "a", "s", "s", "w", "o", "r", "d">>
Str_AB == <<"A", ">", ">", "B">>
Str_5at7 == <<"5", " ", "@", " ", "7">>
Str_empty == <<>>
Str_3atLabel == <<"3", " ", "@", " ", "l", "a", "b", "e", "l">>
Str_HatV == <<"H", " ", "@", " ", "V">>
Str_atV == <<"@", " ", "V">>

Str_eqA == <<"=", "a">>

Str_L == <<"L">>
Str_atM == <<"@", "M">>
Str_LatM == <<"L", "@", "M">>
Str_LarrowR == <<"L", ">", ">", "R">>
Str_eqR == <<"=", "R">>

Str_Save == <<"S", "a", "v", "e">>
Str_Password == <<"P", "a", "s", "s", "w", "o", "r", "d">>
Str_label == <<"l", "a", "b", "e", "l">>

ParserTable ==
    {Str_eqSave, Str_User, Str_atPassword, Str_UserAtPassword, Str_AB,
     Str_5at7, Str_empty, Str_3atLabel}

\* locator strings with quoted labels
Str_q5atA == <<"\"", "5", "\"", "@", "a">>
Str_Aatq5 == <<"a", " ", "@", " ", "\"", "5", "\"">>
Str_q5atq5 == <<"\"", "5", "\"", "@", "\"", "5", "\"">>
Str_qAarrowq5 == <<"\"", "a", "\"", ">", ">", "\"", "5", "\"">>

QuotedLocators == {Str_q5atA, Str_Aatq5, Str_q5atq5, Str_qAarrowq5}

\* characters of the generated locator strings
Alphabet == {" ", "=", "@", ">", "5", "a", "\""}

StringsUpTo(n) == UNION {[1..k -> Alphabet] : k \in 0..n}

ParseInputs == ParserTable \cup QuotedLocators \cup StringsUpTo(MaxLen)

NotParsed == [kind |-> "pending", a |-> <<>>, b |-> <<>>]

----------------------------------------------------------------------------
(* Geometry: Position of src/locator_helpers.py *)

Position(left, top, width, height) ==
    [left |-> left, top |-> top, width |-> width, height |-> height]

right(p) == p.left + p.width
bottom(p) == p.top + p.height
\* // is floor division
center_x(p) == p.left + (p.width \div 2)
center_y(p) == p.top + (p.height \div 2)

abs(x) == IF x < 0 THEN -x ELSE x

\* default arguments of the predicates
DefaultHTolerance == 5
DefaultVTolerance == 8
DefaultGapTolerance == 25

\* mutant of is_horizontally_aligned_with: the difference is taken without
\* abs()
is_horizontally_aligned_with_signed(self, other, tolerance) ==
    center_y(self) - center_y(other) <= tolerance

is_horizontally_aligned_with(self, other, tolerance) ==
    abs(center_y(self) - center_y(other)) <= tolerance

is_vertically_aligned_with(self, other, tolerance) ==
    abs(center_x(self) - center_x(other)) <= tolerance

is_right_of(self, other, gap_tolerance) ==
    LET distance == self.left - right(other)
    IN  distance >= 0 /\ distance <= gap_tolerance

is_below(self, other, gap_tolerance) ==
    LET distance == self.top - bottom(other)
    IN  distance >= 0 /\ distance <= gap_tolerance

\* mutant of distance_squared_to: the vertical difference is left out
distance_squared_to_dx_only(self, other) ==
    LET dx == center_x(self) - center_x(other)
    IN  dx * dx

distance_squared_to(self, other) ==
    LET dx == center_x(self) - center_x(other)
        dy == center_y(self) - center_y(other)
    IN  dx * dx + dy * dy

----------------------------------------------------------------------------
(* The GUI the session shows: components read through COM *)

DEFAULT_TARGET_TYPES ==
    <<"GuiTextField", "GuiCTextField", "GuiPasswordField", "GuiComboBox",
      "GuiCheckBox", "GuiRadioButton", "GuiButton", "GuiTab">>

LABEL_ELEMENT_TYPES == <<"GuiLabel", "GuiTextField", "GuiCTextField">>

\* A component: its properties, the properties it does not have (reading
\* them raises AttributeError) and those whose read fails (COM error).
Component(type, text, tooltip, changeable, pos, container, children) ==
    [type |-> type, text |-> text, tooltip |-> tooltip, name |-> <<>>,
     changeable |-> changeable, pos |-> pos, container |-> container,
     children |-> children, missing |-> {}, fails |-> {}]

Leaf(type, text, tooltip, changeable, pos) ==
    Component(type, text, tooltip, changeable, pos, FALSE, <<>>)

\* The controls a screen is composed of, by component id.
PoolSeq ==
    <<"lblUser", "txtNear", "txtFar", "chkMid", "lblH", "lblV", "txtHV",
      "lblH2", "lblV2", "lblV3", "btnSave", "btnTip", "lblSave">>

Pool == {PoolSeq[i] : i \in 1..Len(PoolSeq)}

Coordinates == {"ScreenLeft", "ScreenTop", "Width", "Height"}

\* A form: a label L (as a label and as an editable text field at the same
\* place, and as a button 15 to the right), a label M above and to the
\* right of it,
\* and controls to the right of L and below M: tA, tB and tD have the same
\* centre, tA and tC the same left edge, tA and tD the same top edge, tOff
\* is 9 to the right of M's centre, tLow is 26 below M, tTall has the
\* centre of tA and starts above M's bottom edge.
LayoutPoolSeq ==
    <<"lblL", "fldL", "btnL", "lblM", "tA", "tB", "tC", "tD", "tOff", "tLow",
      "tTall">>

LayoutPool == {LayoutPoolSeq[i] : i \in 1..Len(LayoutPoolSeq)}

\* Containers and their content: the user area holds a box and a field, the
\* box holds the same field, the user area again (the tree the session
\* hands out is not a tree) and a second field; the title bar has no
\* coordinates.
ScanPoolSeq == <<"usr", "box", "txtA", "txtB", "ttl">>

ScanPool == {ScanPoolSeq[i] : i \in 1..Len(ScanPoolSeq)}

PoolComponent(id) ==
    CASE id = "lblUser" ->
            Leaf("GuiLabel", Str_User, <<>>, FALSE, Position(0, 0, 40, 20))
      [] id = "txtNear" ->
            Leaf("GuiTextField", <<>>, <<>>, TRUE, Position(50, 0, 100, 20))
      [] id = "txtFar" ->
            Leaf("GuiTextField", <<>>, <<>>, TRUE, Position(200, 0, 100, 20))
      [] id = "chkMid" ->
            Leaf("GuiCheckBox", <<>>, <<>>, TRUE, Position(60, 2, 20, 16))
      [] id = "lblH" ->
            Leaf("GuiLabel", <<"H">>, <<>>, FALSE, Position(0, 0, 40, 20))
      [] id = "lblV" ->
            Leaf("GuiLabel", <<"V">>, <<>>, FALSE, Position(0, 30, 40, 20))
      [] id = "txtHV" ->
            Leaf("GuiTextField", <<>>, <<>>, TRUE, Position(50, 35, 30, 15))
      [] id = "lblH2" ->
            Leaf("GuiLabel", <<"H">>, <<>>, FALSE, Position(0, 30, 40, 20))
      [] id = "lblV2" ->
            Leaf("GuiLabel", <<"V">>, <<>>, FALSE, Position(50, 0, 40, 20))
      [] id = "lblV3" ->
            Leaf("GuiLabel", <<"V">>, <<>>, FALSE, Position(50, 30, 40, 20))
      [] id = "btnSave" ->
            Leaf("GuiButton", Str_Save, <<>>, TRUE, Position(300, 100, 60, 20))
      [] id = "btnTip" ->
            Leaf("GuiButton", <<>>, Str_Save, TRUE, Position(370, 100, 20, 20))
      [] id = "lblSave" ->
            Leaf("GuiLabel", Str_Save, <<>>, FALSE, Position(300, 130, 60, 20))
      [] id = "usr" ->
            Component("GuiUserArea", <<>>, <<>>, FALSE,
                      Position(0, 20, 800, 500), TRUE, <<"box", "txtA">>)
      [] id = "box" ->
            Component("GuiBox", <<"a">>, <<>>, FALSE,
                      Position(10, 30, 300, 100), TRUE,
                      <<"txtA", "usr", "txtB">>)
      [] id = "txtA" ->
            Leaf("GuiTextField", <<" ", "a">>, <<>>, TRUE,
                 Position(20, 40, 100, 20))
      [] id = "txtB" ->
            Leaf("GuiCTextField", <<>>, <<"a", " ">>, TRUE,
                 Position(20, 70, 100, 20))
      [] id = "ttl" ->
            [Leaf("GuiTitlebar", <<>>, <<>>, FALSE, Position(0, 0, 0, 0))
                EXCEPT !.missing = Coordinates]
      [] id = "lblL" ->
            Leaf("GuiLabel", <<"L">>, <<>>, FALSE, Position(0, 30, 40, 20))
      [] id = "fldL" ->
            Leaf("GuiTextField", <<"L">>, <<>>, TRUE, Position(0, 30, 40, 20))
      [] id = "btnL" ->
            Leaf("GuiButton", <<"L">>, <<>>, TRUE, Position(15, 30, 40, 20))
      [] id = "lblM" ->
            Leaf("GuiLabel", <<"M">>, <<>>, FALSE, Position(50, 0, 40, 20))
      [] id = "tA" ->
            Leaf("GuiTextField", <<"R">>, <<>>, TRUE, Position(50, 30, 40, 20))
      [] id = "tB" ->
            Leaf("GuiCheckBox", <<>>, <<>>, TRUE, Position(60, 35, 20, 10))
      [] id = "tC" ->
            Leaf("GuiTextField", <<>>, <<"R">>, TRUE, Position(50, 32, 40, 20))
      [] id = "tD" ->
            Leaf("GuiButton", <<"R">>, <<>>, TRUE, Position(55, 30, 30, 20))
      [] id = "tOff" ->
            Leaf("GuiTextField", <<"R">>, <<>>, TRUE, Position(59, 30, 40, 20))
      [] id = "tLow" ->
            Leaf("GuiTextField", <<>>, <<>>, TRUE, Position(50, 46, 40, 20))
      [] id = "tTall" ->
            Leaf("GuiTextField", <<>>, <<>>, TRUE, Position(50, 10, 40, 60))

WindowIds == {"wnd[0]", "wnd[1]"}

\* the properties _scan_window_elements reads of a component; "Count" is
\* read of its Children collection, "Item" is children(i) returning it
ComProps ==
    {"Id", "Type", "Text", "Tooltip", "Name", "Changeable", "ScreenLeft",
     "ScreenTop", "Width", "Height", "ContainerType", "Children", "Count",
     "Item"}

NoFaults == [node |-> "none", missing |-> {}, fails |-> {}]

\* The component behind a handle: the window root (whose children are the
\* screen) or a control; the reads that go wrong are those of faults.
ComponentOf(id, scr) ==
    LET c == IF id \in WindowIds
             THEN Component("GuiMainWindow", <<"S", "A", "P">>, <<>>, FALSE,
                            Position(0, 0, 800, 600), TRUE, scr)
             ELSE PoolComponent(id)
    IN  IF faults.node = id
        THEN [c EXCEPT !.missing = @ \cup faults.missing,
                       !.fails = @ \cup faults.fails]
        ELSE c

----------------------------------------------------------------------------
(* _element_cache: a dict in insertion order, type -> list of ElementInfo *)

EmptyCache == <<>>

cache_get(cache, elem_type) ==
    LET hit == SelectSeq(cache, LAMBDA e : e.type = elem_type)
    IN  IF hit = <<>> THEN <<>> ELSE hit[1].elems

\* setdefault(elem_type, []).append(info)
cache_append(cache, elem_type, info) ==
    IF \E i \in 1..Len(cache) : cache[i].type = elem_type
    THEN [i \in 1..Len(cache) |->
            IF cache[i].type = elem_type
            THEN [cache[i] EXCEPT !.elems = Append(@, info)]
            ELSE cache[i]]
    ELSE Append(cache, [type |-> elem_type, elems |-> <<info>>])

RECURSIVE concat(_)
concat(lists) ==
    IF lists = <<>> THEN <<>> ELSE Head(lists) \o concat(Tail(lists))

\* [item for sublist in cache.values() for item in sublist]
all_elements(cache) == concat([i \in 1..Len(cache) |-> cache[i].elems])

----------------------------------------------------------------------------
(* _scan_window_elements: the loop over the queue *)

\* a COM property read of a component raises (any exception)
raises(c, prop) == prop \in c.missing \/ prop \in c.fails

\* str(getattr(component, prop, "")).strip() inside try/except: pass
read_str(c, prop, value) ==
    IF prop \in c.fails THEN None
    ELSE IF prop \in c.missing THEN <<>>
    ELSE strip(value, Whitespace)

\* bool(getattr(component, "Changeable", False)) inside try/except: pass
read_changeable(c) ==
    IF "Changeable" \in c.fails THEN "None"
    ELSE IF "Changeable" \in c.missing THEN "False"
    ELSE IF c.changeable THEN "True" ELSE "False"

\* mutant of has_position: only ScreenLeft is looked for
has_position_left_only(c) == ~raises(c, "ScreenLeft")

\* elem_pos is set: every coordinate exists and is read
has_position(c) == Coordinates \cap (c.missing \cup c.fails) = {}

ElementInfo(id, elem_type, c) ==
    [element_id |-> id, element_type |-> elem_type,
     text |-> read_str(c, "Text", c.text),
     tooltip |-> read_str(c, "Tooltip", c.tooltip),
     position |-> c.pos,
     name |-> read_str(c, "Name", c.name),
     changeable |-> read_changeable(c)]

\* children(i) returns the child (it neither raises nor is falsy)
accessible(child) ==
    ~(faults.node = child /\ "Item" \in faults.missing \cup faults.fails)

\* the children a component adds to the queue
enqueued_children(c) ==
    IF "ContainerType" \in c.missing \/ ~c.container THEN <<>>
    ELSE IF "Children" \in c.missing THEN <<>>
    ELSE IF raises(c, "Count") THEN <<>>
    ELSE SelectSeq(c.children, accessible)

\* mutant of seen_before: the guard on processed_ids is missing
seen_before_never(component_id, processed) == FALSE

\* if component_id in processed_ids: continue
seen_before(component_id, processed) == component_id \in processed

\* getattr(component, "Type", "Unknown") is outside the inner try blocks:
\* a read that fails with anything but AttributeError reaches the outer
\* except
type_read_aborts(c) == "Type" \in c.fails

\* One iteration of "while queue:" (reads go through COM: with the session
\* down every read raises, and the outer except skips the component).
scan_step(q, processed, cache, scr, com_ok) ==
    LET component_id == Head(q)
        rest == Tail(q)
        c == ComponentOf(component_id, scr)
        skipped == [queue |-> rest, processed_ids |-> processed,
                    cache |-> cache]
    IN  IF ~com_ok \/ raises(c, "Id") THEN skipped
        ELSE IF seen_before(component_id, processed) THEN skipped
        ELSE IF type_read_aborts(c)
        THEN [skipped EXCEPT !.processed_ids = @ \cup {component_id}]
        ELSE
          LET elem_type == IF "Type" \in c.missing
                           THEN "Unknown" ELSE c.type
              cache1 == IF has_position(c)
                        THEN cache_append(cache, elem_type,
                                 ElementInfo(component_id, elem_type, c))
                        ELSE cache
              queue1 == IF "ContainerType" \in c.fails
                           \/ "Children" \in c.fails
                        THEN rest
                        ELSE rest \o enqueued_children(c)
          IN  [queue |-> queue1,
               processed_ids |-> processed \cup {component_id},
               cache |-> cache1]

\* while queue: ...
RECURSIVE scan_loop(_, _, _, _, _)
scan_loop(q, processed, cache, scr, com_ok) ==
    IF q = <<>> THEN cache
    ELSE LET s == scan_step(q, processed, cache, scr, com_ok)
         IN  scan_loop(s.queue, s.processed_ids, s.cache, scr, com_ok)

----------------------------------------------------------------------------
(* find_element: the search strategies *)

NoneTypes == <<"None">>

\* Optional[ElementInfo]: <<>> is None, <<e>> is e
NoElement == <<>>

\* next(iter(elems), None): the first element of a list, or None
first_of(elems) == IF elems = <<>> THEN NoElement ELSE <<elems[1]>>

find_label_element(cache, label_text) ==
    LET all_label_candidates ==
            concat([i \in 1..Len(LABEL_ELEMENT_TYPES) |->
                       cache_get(cache, LABEL_ELEMENT_TYPES[i])])
    IN  first_of(SelectSeq(all_label_candidates,
                           LAMBDA l : l.text = label_text))

effective_target_types(types) ==
    IF types # NoneTypes THEN types ELSE DEFAULT_TARGET_TYPES

\* mutant of candidate_elements: every cached element is a candidate
candidate_elements_all(cache, types) == all_elements(cache)

candidate_elements(cache, types) ==
    LET eff == effective_target_types(types)
    IN  concat([i \in 1..Len(eff) |-> cache_get(cache, eff[i])])

\* for target in ...: if dist < min_dist: min_dist = dist; closest = target
\* (min_dist starts at float('inf'): best = <<>> stands for it); also
\* min(list, key=...), which keeps the first minimal element
\* mutant of closest_loop: a target at the same distance replaces the best
RECURSIVE closest_loop_last(_, _, _, _)
closest_loop_last(targets, dists, best, min_dist) ==
    IF targets = <<>> THEN best
    ELSE IF best = NoElement \/ Head(dists) <= min_dist
         THEN closest_loop_last(Tail(targets), Tail(dists),
                                <<Head(targets)>>, Head(dists))
         ELSE closest_loop_last(Tail(targets), Tail(dists), best, min_dist)

RECURSIVE closest_loop(_, _, _, _)
closest_loop(targets, dists, best, min_dist) ==
    IF targets = <<>> THEN best
    ELSE IF best = NoElement \/ Head(dists) < min_dist
         THEN closest_loop(Tail(targets), Tail(dists),
                           <<Head(targets)>>, Head(dists))
         ELSE closest_loop(Tail(targets), Tail(dists), best, min_dist)

\* the loop over the targets that passed the filter, dists[i] being the
\* distance computed for targets[i]
closest(targets, dists) == closest_loop(targets, dists, NoElement, 0)

\* ContentLocator branch
content_step(elem, value) == elem.text = value \/ elem.tooltip = value

find_content(cache, value) ==
    first_of(SelectSeq(all_elements(cache),
                       LAMBDA elem : content_step(elem, value)))

\* mutant of hlabel_filter: the gap to the label is not limited
hlabel_filter_aligned_only(target, label_pos) ==
    is_horizontally_aligned_with(target.position, label_pos,
                                 DefaultHTolerance)

\* HLabelLocator branch: filter of the loop
hlabel_filter(target, label_pos) ==
    /\ is_horizontally_aligned_with(target.position, label_pos,
                                    DefaultHTolerance)
    /\ is_right_of(target.position, label_pos, DefaultGapTolerance)

find_hlabel(cache, candidates, label) ==
    LET label_elem == find_label_element(cache, label)
    IN  IF label_elem # NoElement
        THEN LET lp == label_elem[1].position
                 passed == SelectSeq(candidates,
                                     LAMBDA t : hlabel_filter(t, lp))
             IN  closest(passed,
                         [i \in 1..Len(passed) |->
                             passed[i].position.left - right(lp)])
        ELSE NoElement

\* mutant of vlabel_filter: the gap to the label is not limited
vlabel_filter_aligned_only(target, label_pos) ==
    is_vertically_aligned_with(target.position, label_pos, DefaultVTolerance)

\* VLabelLocator branch: filter of the loop
vlabel_filter(target, label_pos) ==
    /\ is_vertically_aligned_with(target.position, label_pos,
                                  DefaultVTolerance)
    /\ is_below(target.position, label_pos, DefaultGapTolerance)

find_vlabel(cache, candidates, label) ==
    LET label_elem == find_label_element(cache, label)
    IN  IF label_elem # NoElement
        THEN LET lp == label_elem[1].position
                 passed == SelectSeq(candidates,
                                     LAMBDA t : vlabel_filter(t, lp))
             IN  closest(passed,
                         [i \in 1..Len(passed) |->
                             passed[i].position.top - bottom(lp)])
        ELSE NoElement

\* mutant of hlabel_vlabel_filter: the test against the v-label's bottom
\* is missing
hlabel_vlabel_filter_no_below(target, h_pos, v_pos) ==
    /\ is_horizontally_aligned_with(target.position, h_pos, DefaultHTolerance)
    /\ is_vertically_aligned_with(target.position, v_pos, DefaultVTolerance)
    /\ target.position.left >= right(h_pos)

\* HLabelVLabelLocator branch: filter of the loop
hlabel_vlabel_filter(target, h_pos, v_pos) ==
    /\ is_horizontally_aligned_with(target.position, h_pos, DefaultHTolerance)
    /\ is_vertically_aligned_with(target.position, v_pos, DefaultVTolerance)
    /\ target.position.left >= right(h_pos)
    /\ target.position.top >= bottom(v_pos)

find_hlabel_vlabel(cache, candidates, h_label, v_label) ==
    LET h_label_elem == find_label_element(cache, h_label)
        v_label_elem == find_label_element(cache, v_label)
    IN  IF h_label_elem # NoElement /\ v_label_elem # NoElement
        THEN LET hp == h_label_elem[1].position
                 vp == v_label_elem[1].position
                 cross_pos == Position(right(hp), bottom(vp), 1, 1)
                 passed == SelectSeq(candidates,
                               LAMBDA t : hlabel_vlabel_filter(t, hp, vp))
             IN  closest(passed,
                         [i \in 1..Len(passed) |->
                             distance_squared_to(passed[i].position,
                                                 cross_pos)])
        ELSE NoElement

\* mutant of find_hlabel_hlabel: the left element is looked for among the
\* candidates first
find_hlabel_hlabel_candidate_first(cache, candidates, left_label, right_label) ==
    LET as_candidate == first_of(SelectSeq(candidates,
                                     LAMBDA el : el.text = left_label))
        left_elem == IF as_candidate # NoElement THEN as_candidate
                     ELSE find_label_element(cache, left_label)
    IN  IF left_elem # NoElement
        THEN LET lp == left_elem[1].position
                 possible_right_elements ==
                     SelectSeq(candidates, LAMBDA el :
                         /\ (el.text = right_label \/ el.tooltip = right_label)
                         /\ is_horizontally_aligned_with(el.position, lp,
                                                         DefaultHTolerance)
                         /\ is_right_of(el.position, lp, DefaultGapTolerance))
             IN  closest(possible_right_elements,
                         [i \in 1..Len(possible_right_elements) |->
                             possible_right_elements[i].position.left
                               - right(lp)])
        ELSE NoElement

\* HLabelHLabelLocator branch
find_hlabel_hlabel(cache, candidates, left_label, right_label) ==
    LET as_label == find_label_element(cache, left_label)
        left_elem == IF as_label # NoElement THEN as_label
                     ELSE first_of(SelectSeq(candidates,
                                       LAMBDA el : el.text = left_label))
    IN  IF left_elem # NoElement
        THEN LET lp == left_elem[1].position
                 possible_right_elements ==
                     SelectSeq(candidates, LAMBDA el :
                         /\ (el.text = right_label \/ el.tooltip = right_label)
                         /\ is_horizontally_aligned_with(el.position, lp,
                                                         DefaultHTolerance)
                         /\ is_right_of(el.position, lp, DefaultGapTolerance))
             IN  closest(possible_right_elements,
                         [i \in 1..Len(possible_right_elements) |->
                             possible_right_elements[i].position.left
                               - right(lp)])
        ELSE NoElement

\* the empty-candidates test that precedes the dispatch on the strategy
no_candidates(candidates) == candidates = <<>>

\* find_element from "effective_target_types = ..." to the end: the element
\* found, or None
find_by_strategy(cache, strat, types) ==
    LET candidates == candidate_elements(cache, types)
    IN  IF no_candidates(candidates) THEN NoElement
        ELSE CASE strat.kind = "ContentLocator" ->
                    find_content(cache, strat.a)
               [] strat.kind = "HLabelLocator" ->
                    find_hlabel(cache, candidates, strat.a)
               [] strat.kind = "VLabelLocator" ->
                    find_vlabel(cache, candidates, strat.a)
               [] strat.kind = "HLabelVLabelLocator" ->
                    find_hlabel_vlabel(cache, candidates, strat.a, strat.b)
               [] strat.kind = "HLabelHLabelLocator" ->
                    find_hlabel_hlabel(cache, candidates, strat.a, strat.b)
               [] OTHER -> NoElement

----------------------------------------------------------------------------
(* What the client passes to find_element, and what the GUI can show *)

Locators ==
    {Str_eqSave, Str_User, Str_HatV, Str_atV, Str_AB, Str_5at7,
     Str_3atLabel, Str_empty}

TypeChoices ==
    {NoneTypes, <<"GuiTextField">>, <<"GuiCheckBox", "GuiButton">>}

\* screens of the runs in which the window and the session change
ProtocolScreens ==
    {<<"ttl">>, <<"lblUser", "txtNear", "txtFar">>, <<"btnTip", "btnSave">>}

reversed(s) == [i \in 1..Len(s) |-> s[Len(s) + 1 - i]]

\* the members of seq at the positions T, in the order of seq
RECURSIVE in_order(_, _)
in_order(seq, T) ==
    IF T = {} THEN <<>>
    ELSE LET m == CHOOSE i \in T : \A j \in T : i <= j
         IN  <<seq[m]>> \o in_order(seq, T \ {m})

\* what the root of a scanned window can hold: the containers and fields,
\* and the window itself
ScanChildSeq == ScanPoolSeq \o <<"wnd[0]">>

ScanNodes == {ScanChildSeq[i] : i \in 1..Len(ScanChildSeq)}

\* every choice of at most MaxElems of them, in that order or reversed
ScanScreens ==
    LET picks == {T \in SUBSET (1..Len(ScanChildSeq)) :
                     Cardinality(T) <= MaxElems}
    IN  {in_order(ScanChildSeq, T) : T \in picks}
            \cup {reversed(in_order(ScanChildSeq, T)) : T \in picks}

\* no read goes wrong, or one property of one component is missing
\* (AttributeError) or cannot be read (COM error)
FaultChoices ==
    {NoFaults}
        \cup {[node |-> n, missing |-> {p}, fails |-> {}] :
                 n \in ScanNodes, p \in ComProps}
        \cup {[node |-> n, missing |-> {}, fails |-> {p}] :
                 n \in ScanNodes, p \in ComProps}

\* the faults that change which components the loop visits
TraversalFaults ==
    {f \in FaultChoices :
        f.missing \cup f.fails
            \subseteq {"Id", "Type", "ContainerType", "Children", "Count",
                       "Item"}}

\* the forms: every choice of at most MaxLayout controls of the form, in
\* that order or reversed
LayoutScreens ==
    LET picks == {T \in SUBSET (1..Len(LayoutPoolSeq)) :
                     Cardinality(T) <= MaxLayout}
    IN  {in_order(LayoutPoolSeq, T) : T \in picks}
            \cup {reversed(in_order(LayoutPoolSeq, T)) : T \in picks}

\* the locators resolved on the forms
LayoutLocators == {Str_L, Str_atM, Str_LatM, Str_LarrowR, Str_eqR}

\* the allowed types given with them
LayoutTypes ==
    {NoneTypes, <<"GuiTextField">>, <<"GuiCheckBox", "GuiButton">>,
     <<"GuiButton", "GuiTextField">>}

\* screens of the runs in which one call is repeated
RepeatScreens ==
    ProtocolScreens
        \cup {<<"lblH2", "lblV2", "txtHV">>, <<"lblUser", "chkMid", "txtNear">>,
              <<"usr">>}

RECURSIVE ascending(_)
ascending(T) ==
    IF T = {} THEN <<>>
    ELSE LET m == CHOOSE i \in T : \A j \in T : i <= j
         IN  <<PoolSeq[m]>> \o ascending(T \ {m})

\* every choice of at most MaxElems controls, in pool order or reversed
GeneratedScreens ==
    LET picks == {T \in SUBSET (1..Len(PoolSeq)) : Cardinality(T) <= MaxElems}
    IN  {ascending(T) : T \in picks} \cup {reversed(ascending(T)) : T \in picks}

----------------------------------------------------------------------------
(* State of a finder after __init__, before any call *)

NoWindowId == "None"

ReturnNone == [kind |-> "return", value |-> "None"]
ReturnId(id) == [kind |-> "return", value |-> id]
RaiseExc(exc) == [kind |-> "raise", value |-> exc]
NoResult == [kind |-> "running", value |-> "None"]

NoPrevCall == [outcome |-> "none", window_id |-> NoWindowId, scans |-> 0]

\* no call of the alignment predicates made
NoGeometry ==
    [called |-> FALSE, h_ab |-> FALSE, h_ba |-> FALSE,
     v_ab |-> FALSE, v_ba |-> FALSE]

\* the positions and tolerances the alignment predicates are called with
Positions ==
    {Position(l, t, w, h) : l \in 0..MaxCoord, t \in 0..MaxCoord,
                            w \in 0..MaxCoord, h \in 0..MaxCoord}

Tolerances == -1..MaxCoord

NoRepeat == [locator |-> <<>>, types |-> NoneTypes, last |-> NoResult]

InitFinder ==
    /\ element_cache = EmptyCache
    /\ cache_window_id = NoWindowId
    /\ pc = "idle"
    /\ locator_str = <<>>
    /\ target_element_types = NoneTypes
    /\ current_window_id = NoWindowId
    /\ queue = <<>>
    /\ processed_ids = {}
    /\ strategy = NoStrategy
    /\ result = NoResult
    /\ window_reads = 0
    /\ call_scans = 0
    /\ prev_call = NoPrevCall
    /\ cleared_id = NoWindowId

Init ==
    /\ InitFinder
    /\ session_ok = TRUE
    /\ active_window_id \in WindowIds
    /\ screen \in ProtocolScreens
    /\ faults = NoFaults
    /\ calls_left = MaxCalls
    /\ parse_in = <<>>
    /\ parse_out = NotParsed
    /\ geom_in = NoGeometry
    /\ geom_out = NoGeometry
    /\ repeat = NoRepeat

\* one call on a window whose screen is any generated screen
InitResolve ==
    /\ InitFinder
    /\ session_ok = TRUE
    /\ active_window_id = "wnd[0]"
    /\ screen \in GeneratedScreens
    /\ faults = NoFaults
    /\ calls_left = 1
    /\ parse_in = <<>>
    /\ parse_out = NotParsed
    /\ geom_in = NoGeometry
    /\ geom_out = NoGeometry
    /\ repeat = NoRepeat

\* one call on a window whose tree is any generated tree, one read of one
\* component going wrong
InitScanWith(fault_choices) ==
    /\ InitFinder
    /\ session_ok = TRUE
    /\ active_window_id = "wnd[0]"
    /\ screen \in ScanScreens
    /\ faults \in fault_choices
    /\ calls_left = 1
    /\ parse_in = <<>>
    /\ parse_out = NotParsed
    /\ geom_in = NoGeometry
    /\ geom_out = NoGeometry
    /\ repeat = [locator |-> Str_eqA, types |-> NoneTypes, last |-> NoResult]

InitScan == InitScanWith(FaultChoices)

InitScanLive == InitScanWith(TraversalFaults)

\* one call with a locator of the form on a window showing a form
InitLayout ==
    /\ InitFinder
    /\ session_ok = TRUE
    /\ active_window_id = "wnd[0]"
    /\ screen \in LayoutScreens
    /\ faults = NoFaults
    /\ calls_left = 1
    /\ parse_in = <<>>
    /\ parse_out = NotParsed
    /\ geom_in = NoGeometry
    /\ geom_out = NoGeometry
    /\ repeat \in [locator : LayoutLocators, types : LayoutTypes,
                    last : {NoResult}]

\* a client about to repeat one call on one window
InitRepeat ==
    /\ InitFinder
    /\ session_ok = TRUE
    /\ active_window_id \in WindowIds
    /\ screen \in RepeatScreens
    /\ faults = NoFaults
    /\ calls_left = MaxCalls
    /\ parse_in = <<>>
    /\ parse_out = NotParsed
    /\ geom_in = NoGeometry
    /\ geom_out = NoGeometry
    /\ repeat \in [locator : Locators, types : TypeChoices, last : {NoResult}]

\* _parse_locator on its own
InitParse ==
    /\ InitFinder
    /\ session_ok = TRUE
    /\ active_window_id = "wnd[0]"
    /\ screen = <<>>
    /\ faults = NoFaults
    /\ calls_left = 0
    /\ parse_in \in ParseInputs
    /\ parse_out = NotParsed
    /\ geom_in = NoGeometry
    /\ geom_out = NoGeometry
    /\ repeat = NoRepeat

\* two positions and a tolerance for the alignment predicates
InitGeom ==
    /\ InitFinder
    /\ session_ok = TRUE
    /\ active_window_id = "wnd[0]"
    /\ screen = <<>>
    /\ faults = NoFaults
    /\ calls_left = 0
    /\ parse_in = <<>>
    /\ parse_out = NotParsed
    /\ geom_in \in [a : Positions, b : Positions, tolerance : Tolerances]
    /\ geom_out = NoGeometry
    /\ repeat = NoRepeat

----------------------------------------------------------------------------
(* The GUI changes under the finder *)

SessionGoesDown ==
    /\ session_ok
    /\ session_ok' = FALSE
    /\ UNCHANGED <<active_window_id, screen, faults, finderVars, callVars,
                   scanVars, histVars, parseVars, geomVars, repeat>>

SessionComesBack ==
    /\ ~session_ok
    /\ session_ok' = TRUE
    /\ UNCHANGED <<active_window_id, screen, faults, finderVars, callVars,
                   scanVars, histVars, parseVars, geomVars, repeat>>

\* the window being scanned is not replaced under the scan
InScan == pc \in {"scan", "scan_loop", "scanned"}

WindowChanges ==
    /\ ~InScan
    /\ active_window_id' \in WindowIds \ {active_window_id}
    /\ screen' \in ProtocolScreens
    /\ UNCHANGED <<session_ok, faults, finderVars, callVars, scanVars,
                   histVars, parseVars, geomVars, repeat>>

LayoutChanges ==
    /\ ~InScan
    /\ screen' \in ProtocolScreens \ {screen}
    /\ UNCHANGED <<session_ok, active_window_id, faults, finderVars,
                   callVars, scanVars, histVars, parseVars, geomVars, repeat>>

----------------------------------------------------------------------------
(* find_element, step by step *)

\* def find_element(self, locator_str, target_element_types=None)
Call(loc, types) ==
    /\ pc = "idle"
    /\ calls_left > 0
    /\ calls_left' = calls_left - 1
    /\ pc' = "check"
    /\ locator_str' = loc
    /\ target_element_types' = types
    /\ current_window_id' = NoWindowId
    /\ strategy' = NoStrategy
    /\ result' = NoResult
    /\ window_reads' = 0
    /\ call_scans' = 0
    /\ UNCHANGED <<envVars, finderVars, scanVars, prev_call, cleared_id,
                   parseVars, geomVars>>

\* mutant of clear_cache: the window id is not reset
clear_cache_keeps_id == [cache |-> EmptyCache, window_id |-> cache_window_id]

\* _clear_cache: the values of (_element_cache, _cache_window_id) after it
clear_cache == [cache |-> EmptyCache, window_id |-> NoWindowId]

\* mutant of window_changed: every call rescans
window_changed_always(current, cached) == TRUE

\* if current_window_id != self._cache_window_id
window_changed(current, cached) == current # cached

\* session_handle.ActiveWindow or the Id of the window cannot be read
window_unreadable(window_id) ==
    ~session_ok \/ raises(ComponentOf(window_id, screen), "Id")

\* _check_and_refresh_cache: read ActiveWindow and its Id, compare; the
\* except branch clears the cache and raises SapGuiComException
CheckWindow ==
    /\ pc = "check"
    /\ window_reads' = window_reads + 1
    /\ IF window_unreadable(active_window_id)
       THEN /\ element_cache' = clear_cache.cache
            /\ cache_window_id' = clear_cache.window_id
            /\ cleared_id' = cache_window_id
            /\ result' = RaiseExc("SapGuiComException")
            /\ pc' = "raised"
            /\ UNCHANGED current_window_id
       ELSE /\ current_window_id' = active_window_id
            /\ pc' = IF window_changed(active_window_id, cache_window_id)
                     THEN "scan" ELSE "checked"
            /\ UNCHANGED <<finderVars, result, cleared_id>>
    /\ UNCHANGED <<envVars, locator_str, target_element_types, strategy,
                   calls_left, scanVars, call_scans, prev_call, parseVars,
                   geomVars, repeat>>

\* _scan_window_elements up to the loop: _clear_cache(), then the debug
\* line reads root_element.Id; a failure of that read reaches the except
\* branch of _check_and_refresh_cache
ScanBegin ==
    /\ pc = "scan"
    /\ call_scans' = call_scans + 1
    /\ element_cache' = clear_cache.cache
    /\ cache_window_id' = clear_cache.window_id
    /\ IF window_unreadable(current_window_id)
       THEN /\ result' = RaiseExc("SapGuiComException")
            /\ cleared_id' = cache_window_id
            /\ pc' = "raised"
            /\ UNCHANGED scanVars
       ELSE /\ pc' = "scan_loop"
            /\ queue' = <<current_window_id>>
            /\ processed_ids' = {}
            /\ UNCHANGED <<result, cleared_id>>
    /\ UNCHANGED <<envVars, locator_str, target_element_types,
                   current_window_id, strategy, calls_left, window_reads,
                   prev_call, parseVars, geomVars, repeat>>

\* the while loop of _scan_window_elements, one iteration at a time
ScanLoop ==
    /\ pc = "scan_loop"
    /\ IF queue = <<>>
       THEN /\ pc' = "scanned"
            /\ UNCHANGED <<element_cache, scanVars>>
       ELSE LET s == scan_step(queue, processed_ids, element_cache, screen,
                               session_ok)
            IN  /\ queue' = s.queue
                /\ processed_ids' = s.processed_ids
                /\ element_cache' = s.cache
                /\ UNCHANGED pc
    /\ UNCHANGED <<envVars, cache_window_id, locator_str,
                   target_element_types, current_window_id, strategy, result,
                   calls_left, histVars, parseVars, geomVars, repeat>>

\* mutant of refreshed_window_id: the assignment after the scan is missing,
\* the id stays what _clear_cache left
refreshed_window_id_not_stored(current) == cache_window_id

\* the value _check_and_refresh_cache stores once the scan has returned
refreshed_window_id(current) == current

\* self._cache_window_id = current_window_id
ScanEnd ==
    /\ pc = "scanned"
    /\ cache_window_id' = refreshed_window_id(current_window_id)
    /\ processed_ids' = {}
    /\ cleared_id' = NoWindowId
    /\ pc' = "checked"
    /\ UNCHANGED <<envVars, element_cache, locator_str, target_element_types,
                   current_window_id, queue, strategy, result, calls_left,
                   window_reads, call_scans, prev_call, parseVars, geomVars, repeat>>

\* if not self._element_cache: return None
CheckEmpty ==
    /\ pc = "checked"
    /\ IF element_cache = EmptyCache
       THEN /\ result' = ReturnNone
            /\ pc' = "done"
       ELSE /\ pc' = "parse"
            /\ UNCHANGED result
    /\ UNCHANGED <<envVars, finderVars, locator_str, target_element_types,
                   current_window_id, scanVars, strategy, calls_left,
                   histVars, parseVars, geomVars, repeat>>

\* mutant of caught_by_find_element: only ValueError is caught
caught_value_error_only(exc) == exc = "ValueError"

\* except (ValueError, NotImplementedError)
caught_by_find_element(exc) == exc \in {"ValueError", "NotImplementedError"}

\* try: strategy = self._parse_locator(locator_str) except ...: return None
Parse ==
    /\ pc = "parse"
    /\ LET out == parse_locator(locator_str)
       IN  IF out.kind \in ParseErrors
           THEN /\ IF caught_by_find_element(out.kind)
                   THEN result' = ReturnNone /\ pc' = "done"
                   ELSE result' = RaiseExc(out.kind) /\ pc' = "raised"
                /\ UNCHANGED strategy
           ELSE /\ strategy' = out
                /\ pc' = "match"
                /\ UNCHANGED result
    /\ UNCHANGED <<envVars, finderVars, locator_str, target_element_types,
                   current_window_id, scanVars, calls_left, histVars,
                   parseVars, geomVars, repeat>>

\* the rest of find_element: candidates, the strategy's search, the result
Match ==
    /\ pc = "match"
    /\ LET found_element ==
               find_by_strategy(element_cache, strategy, target_element_types)
       IN  result' = IF found_element # NoElement
                     THEN ReturnId(found_element[1].element_id)
                     ELSE ReturnNone
    /\ pc' = "done"
    /\ UNCHANGED <<envVars, finderVars, locator_str, target_element_types,
                   current_window_id, scanVars, strategy, calls_left,
                   histVars, parseVars, geomVars, repeat>>

\* the call is over; the client holds its outcome
Return ==
    /\ pc \in {"done", "raised"}
    /\ prev_call' = [outcome |-> pc, window_id |-> current_window_id,
                     scans |-> call_scans]
    /\ pc' = "idle"
    /\ locator_str' = <<>>
    /\ target_element_types' = NoneTypes
    /\ current_window_id' = NoWindowId
    /\ strategy' = NoStrategy
    /\ window_reads' = 0
    /\ call_scans' = 0
    /\ UNCHANGED <<envVars, finderVars, scanVars, result, calls_left,
                   cleared_id, parseVars, geomVars, repeat>>

\* _parse_locator(parse_in), called on its own
ParseLocatorCall ==
    /\ parse_out = NotParsed
    /\ parse_out' = parse_locator(parse_in)
    /\ UNCHANGED <<envVars, finderVars, callVars, scanVars, histVars,
                   parse_in, geomVars, repeat>>

\* the client calls find_element with arguments of its choice
AnyCall ==
    /\ \E loc \in Locators, types \in TypeChoices : Call(loc, types)
    /\ UNCHANGED repeat

\* the client calls find_element again with the arguments it repeats, and
\* remembers what the call before returned
RepeatCall ==
    /\ Call(repeat.locator, repeat.types)
    /\ repeat' = [repeat EXCEPT !.last = result]

\* find_element from the return of _check_and_refresh_cache to its end
AfterRefresh ==
    \/ CheckEmpty
    \/ Parse
    \/ Match
    \/ Return

\* _check_and_refresh_cache with the scan it may run
Refresh ==
    \/ CheckWindow
    \/ ScanBegin
    \/ ScanLoop
    \/ ScanEnd

FindElement ==
    \/ AnyCall
    \/ CheckWindow
    \/ ScanBegin
    \/ ScanLoop
    \/ ScanEnd
    \/ CheckEmpty
    \/ Parse
    \/ Match
    \/ Return

Gui ==
    \/ SessionGoesDown
    \/ SessionComesBack
    \/ WindowChanges
    \/ LayoutChanges

Next == FindElement \/ Gui

\* calls on a session whose window, layout and reachability change
Spec == Init /\ [][Next]_vars

\* one call on each generated screen
SpecResolve == InitResolve /\ [][FindElement]_vars

\* the parser on each generated string
SpecParse == InitParse /\ [][ParseLocatorCall]_vars

\* a.is_horizontally_aligned_with(b, tolerance) and
\* a.is_vertically_aligned_with(b, tolerance), each called both ways round
AlignCall ==
    /\ ~geom_out.called
    /\ geom_out' =
          [called |-> TRUE,
           h_ab |-> is_horizontally_aligned_with(geom_in.a, geom_in.b,
                                                 geom_in.tolerance),
           h_ba |-> is_horizontally_aligned_with(geom_in.b, geom_in.a,
                                                 geom_in.tolerance),
           v_ab |-> is_vertically_aligned_with(geom_in.a, geom_in.b,
                                               geom_in.tolerance),
           v_ba |-> is_vertically_aligned_with(geom_in.b, geom_in.a,
                                               geom_in.tolerance)]
    /\ UNCHANGED <<envVars, finderVars, callVars, scanVars, histVars,
                   parseVars, geom_in, repeat>>

\* the alignment predicates on generated positions
SpecGeom == InitGeom /\ [][AlignCall]_vars

\* one call repeated on a GUI that does not change
RepeatNext == RepeatCall \/ Refresh \/ AfterRefresh

SpecRepeat == InitRepeat /\ [][RepeatNext]_vars

\* one call on each generated tree with each fault
SpecScan == InitScan /\ [][RepeatNext]_vars

\* the same, the loop of the scan being run to its end: find_element is
\* sequential code that nothing suspends
SpecScanLive == InitScanLive /\ [][RepeatNext]_vars /\ WF_vars(ScanLoop)

\* one call on each form with each locator of the form
SpecLayout == InitLayout /\ [][RepeatNext]_vars

----------------------------------------------------------------------------
(* Properties of the cache protocol (checked under Spec) *)

Finished == {"done", "raised"}

\* the call in progress has read the window id, the previous call returned
\* normally, and both read the same id
SameWindowAsPrevCall ==
    /\ pc # "idle"
    /\ current_window_id \in WindowIds
    /\ prev_call.outcome = "done"
    /\ prev_call.window_id = current_window_id

\* the call in progress has read a window id other than the one the
\* previous call read
OtherWindowThanPrevCall ==
    /\ pc # "idle"
    /\ current_window_id \in WindowIds
    /\ prev_call.window_id \in WindowIds
    /\ prev_call.window_id # current_window_id

\* C1: of two consecutive find_element calls that read the same
\* active-window id, the second performs no scan, and the first two calls
\* on a finder perform exactly one scan between them; when the id read
\* differs from the one the previous call read, the call performs exactly
\* one scan, and has performed it before it parses or matches.
C1_ScansPerWindowChange ==
    /\ SameWindowAsPrevCall => call_scans = 0
    /\ (SameWindowAsPrevCall /\ calls_left = MaxCalls - 2 /\ pc \in Finished)
          => prev_call.scans + call_scans = 1
    /\ OtherWindowThanPrevCall =>
          /\ call_scans <= 1
          /\ pc \in {"scan_loop", "scanned", "checked", "parse", "match",
                     "done", "raised"} => call_scans = 1

C1_Witness ==
    /\ SameWindowAsPrevCall
    /\ pc = "done"
    /\ calls_left = MaxCalls - 2
    /\ prev_call.scans = 1
    /\ call_scans = 0
    /\ result # ReturnNone

\* C2: whenever find_element parses the locator or executes a strategy,
\* _cache_window_id equals the active-window id this call read at its
\* start, that id has been read, and nothing was parsed before the refresh
\* finished.
C2_FreshBeforeMatch ==
    /\ pc \in {"parse", "match"} =>
          /\ window_reads = 1
          /\ current_window_id \in WindowIds
          /\ cache_window_id = current_window_id
    /\ pc \in {"check", "scan", "scan_loop", "scanned", "checked"} =>
          strategy = NoStrategy

\* a matching step on a cache scanned in this call, while the GUI has
\* already moved on to another window
C2_Witness ==
    /\ pc = "match"
    /\ call_scans = 1
    /\ cache_window_id = current_window_id
    /\ active_window_id # current_window_id

\* C8: when a read of the active window or of its id fails, the step ends
\* the call by raising SapGuiComException (it does not return None), the
\* cache is empty, _cache_window_id is None, and the call has read
\* ActiveWindow exactly once.
C8_TransportError ==
    [][(pc \in {"check", "scan"} /\ ~session_ok /\ pc' # pc)
          => /\ pc' = "raised"
             /\ result' = RaiseExc("SapGuiComException")
             /\ element_cache' = EmptyCache
             /\ cache_window_id' = NoWindowId
             /\ window_reads' = 1]_vars

\* the read fails in a call that follows one that had filled the cache
C8_Witness ==
    /\ pc = "raised"
    /\ result = RaiseExc("SapGuiComException")
    /\ current_window_id = NoWindowId
    /\ prev_call.outcome = "done"
    /\ prev_call.scans = 1
    /\ element_cache = EmptyCache

\* the parser rejects the locator of the call in progress
LocatorRejected == parse_locator(locator_str).kind \in ParseErrors

\* C9: a call whose locator the parser rejects (ValueError) or reports as
\* unsupported (NotImplementedError) ends by returning None; the only
\* exception that leaves it is the SapGuiComException of a step in which
\* the window could not be read.
C9_RejectedLocatorReturnsNone ==
    [][(pc \notin Finished /\ pc' \in Finished /\ LocatorRejected)
          => \/ pc' = "done" /\ result' = ReturnNone
             \/ /\ ~session_ok
                /\ pc' = "raised"
                /\ result' = RaiseExc("SapGuiComException")]_vars

\* an unsupported locator reached the parser (the cache was not empty)
C9_Witness ==
    /\ pc = "done"
    /\ parse_locator(locator_str).kind = "NotImplementedError"
    /\ element_cache # EmptyCache
    /\ result = ReturnNone

----------------------------------------------------------------------------
(* Properties of the search strategies (checked under SpecResolve) *)

CachedElements ==
    {all_elements(element_cache)[i] :
        i \in 1..Len(all_elements(element_cache))}

\* the cached elements of the call's effective target types
AllowedElements ==
    LET eff == effective_target_types(target_element_types)
    IN  {e \in CachedElements :
            \E i \in 1..Len(eff) : eff[i] = e.element_type}

ReturnedAnId == result.kind = "return" /\ result.value # "None"

\* C3: a Content locator is searched in every cached element whatever the
\* allowed types: when some cached element has the text, the call returns
\* an element id.
C3_ContentIgnoresAllowedTypes ==
    (/\ pc = "done"
     /\ strategy.kind = "ContentLocator"
     /\ \E e \in CachedElements : e.text = strategy.a)
        => ReturnedAnId

\* C4: for a Content locator a text match outranks a tooltip match: when
\* some cached element has the text, the element returned has the text.
C4_TextOutranksTooltip ==
    (/\ pc = "done"
     /\ strategy.kind = "ContentLocator"
     /\ ReturnedAnId
     /\ \E e \in CachedElements : e.text = strategy.a)
        => \E e \in CachedElements :
              e.element_id = result.value /\ e.text = strategy.a

\* the call resolves "H @ V" for target types that admit text fields
ResolvesHatV ==
    /\ pc = "done"
    /\ locator_str = Str_HatV
    /\ target_element_types \in {NoneTypes, <<"GuiTextField">>}

\* an HLabelVLabel call never returns a candidate whose top is above the
\* bottom of its v-label
NeverAboveVLabel ==
    (/\ pc = "done"
     /\ strategy.kind = "HLabelVLabelLocator"
     /\ ReturnedAnId)
        => LET v_label_elem == find_label_element(element_cache, strategy.b)
           IN  /\ v_label_elem # NoElement
               /\ \E e \in AllowedElements :
                     /\ e.element_id = result.value
                     /\ e.position.top >=
                          v_label_elem[1].position.top
                            + v_label_elem[1].position.height

\* C5 as stated: with h-label (0,0,40,20), v-label (0,30,40,20) and a text
\* field (50,35,30,15), "H @ V" returns the field; and no HLabelVLabel call
\* returns a candidate whose top is above the v-label's bottom.
C5_ExampleReturnsField ==
    /\ (ResolvesHatV /\ screen = <<"lblH", "lblV", "txtHV">>)
          => result = ReturnId("txtHV")
    /\ NeverAboveVLabel

\* C5, amended: with h-label (0,0,40,20), v-label (0,30,40,20) and a text
\* field (50,35,30,15), "H @ V" returns None (the field's centre (65,42) is
\* not on the h-label's row, centre_y 10, and its top 35 is above the
\* v-label's bottom 50); the field is returned for h-label (0,30,40,20) and v-label
\* (50,0,40,20), and None again once the v-label is (50,30,40,20), whose
\* bottom 50 is below the field's top; no HLabelVLabel call returns a
\* candidate whose top is above the v-label's bottom.
C5_HLabelVLabelBelowVLabel ==
    /\ (ResolvesHatV /\ screen = <<"lblH", "lblV", "txtHV">>)
          => result = ReturnNone
    /\ (ResolvesHatV /\ screen = <<"txtHV", "lblH2", "lblV2">>)
          => result = ReturnId("txtHV")
    /\ (ResolvesHatV /\ screen = <<"txtHV", "lblH2", "lblV3">>)
          => result = ReturnNone
    /\ NeverAboveVLabel

C5_Witness ==
    /\ ResolvesHatV
    /\ screen = <<"txtHV", "lblH2", "lblV2">>
    /\ result = ReturnId("txtHV")
    /\ strategy = HLabelVLabelLocator(<<"H">>, <<"V">>)

\* the allowed-type elements on the row of the label and within the gap to
\* its right
RightOfLabel(label_pos) ==
    {e \in AllowedElements :
        /\ abs((e.position.top + (e.position.height \div 2))
                 - (label_pos.top + (label_pos.height \div 2))) <= 5
        /\ e.position.left - (label_pos.left + label_pos.width) >= 0
        /\ e.position.left - (label_pos.left + label_pos.width) <= 25}

\* C6: an HLabel call returns an allowed-type element that is horizontally
\* aligned with the label (|center_y difference| <= 5) and right of it
\* (0 <= left - label.right <= 25) with the smallest left - label.right,
\* and None when there is no such element or no label; label (0,0,40,20)
\* with fields (50,0,100,20) and (200,0,100,20) gives the field at left 50.
C6_HLabelNearestRight ==
    /\ (pc = "done" /\ strategy.kind = "HLabelLocator") =>
          LET label_elem == find_label_element(element_cache, strategy.a)
          IN  IF label_elem = NoElement
                 \/ RightOfLabel(label_elem[1].position) = {}
              THEN result = ReturnNone
              ELSE \E c \in RightOfLabel(label_elem[1].position) :
                      /\ result = ReturnId(c.element_id)
                      /\ \A d \in RightOfLabel(label_elem[1].position) :
                            c.position.left <= d.position.left
    /\ (/\ pc = "done"
        /\ locator_str = Str_User
        /\ target_element_types \in {NoneTypes, <<"GuiTextField">>}
        /\ screen \in {<<"lblUser", "txtNear", "txtFar">>,
                       <<"txtFar", "txtNear", "lblUser">>})
          => result = ReturnId("txtNear")

\* two elements pass the filter and the nearer one is returned
C6_Witness ==
    /\ pc = "done"
    /\ strategy = HLabelLocator(Str_User)
    /\ screen = <<"chkMid", "txtNear", "lblUser">>
    /\ target_element_types = NoneTypes
    /\ result = ReturnId("txtNear")

----------------------------------------------------------------------------
(* Properties of _parse_locator (checked under SpecParse) *)

Parsed == parse_out # NotParsed

\* C7: the parser table.
C7_ParserTable ==
    Parsed =>
      /\ parse_in = Str_eqSave => parse_out = ContentLocator(Str_Save)
      /\ parse_in = Str_User => parse_out = HLabelLocator(Str_User)
      /\ parse_in = Str_atPassword => parse_out = VLabelLocator(Str_Password)
      /\ parse_in = Str_UserAtPassword
            => parse_out = HLabelVLabelLocator(Str_User, Str_Password)
      /\ parse_in = Str_AB => parse_out = HLabelHLabelLocator(<<"A">>, <<"B">>)
      /\ parse_in = Str_5at7 => parse_out.kind = "ValueError"
      /\ parse_in = Str_empty => parse_out.kind = "ValueError"
      /\ parse_in = Str_3atLabel => parse_out.kind = "NotImplementedError"

C7_Witness ==
    /\ parse_in = Str_5at7
    /\ parse_out = Raise("ValueError")

\* the stripped input reaches the '@' rule: no leading '=', no '>>', an '@'
IsAtLocator(s) ==
    /\ ~startswith(s, <<"=">>)
    /\ ~contains(s, <<">", ">">>)
    /\ contains(s, <<"@">>)

\* C10: for a locator "left @ right" (the parts around the first '@' of a
\* string the '@' rule applies to) with both stripped sides non-empty, the
\* parser yields HLabelVLabel when neither side is a pure-digit string,
\* NotImplementedError when exactly one is, ValueError when both are.
C10_AtIndexOutcomes ==
    LET s == strip(parse_in, Whitespace)
        lhs == strip(split1(s, <<"@">>)[1], Whitespace)
        rhs == strip(split1(s, <<"@">>)[2], Whitespace)
    IN  (Parsed /\ IsAtLocator(s) /\ lhs # <<>> /\ rhs # <<>>) =>
           parse_out.kind =
              CASE ~isdigit(lhs) /\ ~isdigit(rhs) -> "HLabelVLabelLocator"
                [] isdigit(lhs) /\ isdigit(rhs) -> "ValueError"
                [] OTHER -> "NotImplementedError"

C10_Witness ==
    /\ parse_in = <<"a", "@", "5">>
    /\ parse_out = Raise("NotImplementedError")

----------------------------------------------------------------------------
(* Properties of repeated calls (checked under SpecRepeat) *)

\* the call in progress is not the first of the client's repeated calls
NotFirstCall == pc # "idle" /\ repeat.last # NoResult

\* C11: when find_element is repeated with the same locator and allowed
\* types while neither the layout nor the active-window id changes, every
\* call after the first returns what the call before it returned, and no
\* call after the first performs a scan.
C11_RepeatedCallSameResult ==
    /\ NotFirstCall => call_scans = 0 /\ pc \notin {"scan", "scan_loop", "scanned"}
    /\ (NotFirstCall /\ pc \in Finished) =>
          /\ pc = "done"
          /\ result = repeat.last

\* the third call returns the element id the second returned
C11_Witness ==
    /\ NotFirstCall
    /\ pc = "done"
    /\ calls_left = MaxCalls - 3
    /\ ReturnedAnId
    /\ result = repeat.last
    /\ call_scans = 0

----------------------------------------------------------------------------
(* Properties of the cache as state (checked under Spec) *)

ScanSteps == {"scan", "scan_loop", "scanned"}

\* the call is at its check of the window, and _cache_window_id is the id
\* of the active window
CalledOnCachedWindow == pc = "check" /\ cache_window_id = active_window_id

\* the except branch of _check_and_refresh_cache runs at the check of the
\* window: both fields are reset and the call raises
ClearedOnFailedRead ==
    /\ pc = "check"
    /\ ~session_ok
    /\ pc' = "raised"
    /\ element_cache' = EmptyCache
    /\ cache_window_id' = NoWindowId

\* C12 as stated: a find_element call made while _cache_window_id equals
\* the active-window id leaves _element_cache and _cache_window_id
\* unchanged, whatever the locator and the allowed types; find_element
\* changes them only in a rescan.
C12_OnlyRescanChangesCache ==
    [][/\ CalledOnCachedWindow => finderVars' = finderVars
       /\ finderVars' # finderVars => pc \in ScanSteps]_vars

\* C12, amended: a find_element call that reads an active-window id equal
\* to _cache_window_id starts no scan and leaves _element_cache and
\* _cache_window_id unchanged, whatever the locator and the allowed types;
\* find_element changes them only in a rescan or, when the active window
\* cannot be read, by clearing both before it raises.
C12_RescanOrClearChangesCache ==
    [][/\ (CalledOnCachedWindow /\ session_ok) =>
             /\ finderVars' = finderVars
             /\ pc' \in {"check", "checked"}
       /\ finderVars' # finderVars =>
             pc \in ScanSteps \/ ClearedOnFailedRead]_vars

\* a call with a locator the parser rejects has ended on a cache it found
\* valid and did not rescan
C12_Witness ==
    /\ pc = "done"
    /\ LocatorRejected
    /\ call_scans = 0
    /\ cache_window_id = current_window_id
    /\ element_cache # EmptyCache

\* the call before this one ended in the except branch of
\* _check_and_refresh_cache, which had called _clear_cache()
Invalidated == prev_call.outcome = "raised"

\* C13: once _clear_cache() has run, _element_cache is empty and
\* _cache_window_id is None, which is no window id; the next find_element
\* that reads the active window finds its id different from None and scans
\* the window (once, before it parses or matches, and stores the id), also
\* when that id is the one that was cached before the cache was cleared.
C13_ClearedCacheForcesScan ==
    /\ NoWindowId \notin WindowIds
    /\ (pc = "raised" \/ (Invalidated /\ pc \in {"idle", "check", "scan"})) =>
          /\ element_cache = EmptyCache
          /\ cache_window_id = NoWindowId
    /\ (Invalidated /\ pc \in {"scan_loop", "scanned"}) =>
          /\ call_scans = 1
          /\ cache_window_id = NoWindowId
    /\ (Invalidated /\ pc \in {"checked", "parse", "match", "done"}) =>
          /\ call_scans = 1
          /\ cache_window_id = current_window_id
    /\ (Invalidated /\ pc \in {"parse", "match"}) => element_cache # EmptyCache

\* the window whose id had been cached when the cache was cleared has been
\* scanned again by the next call
C13_Witness ==
    /\ Invalidated
    /\ pc = "scanned"
    /\ cleared_id = current_window_id
    /\ call_scans = 1
    /\ element_cache # EmptyCache

----------------------------------------------------------------------------
(* Properties of the scan (checked under SpecScan and SpecScanLive) *)

\* the most children a component of the window has
Fanout ==
    LET widths == {Len(ComponentOf(n, screen).children) : n \in ScanNodes}
    IN  CHOOSE w \in widths : \A v \in widths : v <= w

\* what the loop still has to do: the queue, and for every id not yet
\* processed the children it may add
ScanMeasure ==
    Len(queue) + (Fanout + 1) * Cardinality(ScanNodes \ processed_ids)

CachedIds ==
    LET elems == all_elements(element_cache)
    IN  [i \in 1..Len(elems) |-> elems[i].element_id]

NoDuplicates(seq) ==
    \A i, j \in 1..Len(seq) : seq[i] = seq[j] => i = j

\* C14: the scan of a window ends whatever finite graph the components
\* form (cycles, components reached by several paths): every iteration
\* takes one entry off the queue and adds children only for an id it had
\* not processed, an id met again is dropped without being indexed or
\* expanded, no id is indexed twice, and the loop reaches its end.
C14_ScanTerminates ==
    /\ [][(pc = "scan_loop" /\ queue # <<>>) =>
             /\ ScanMeasure' < ScanMeasure
             /\ Head(queue) \in processed_ids =>
                   /\ queue' = Tail(queue)
                   /\ element_cache' = element_cache
                   /\ processed_ids' = processed_ids]_vars
    /\ [](pc \in {"scan_loop", "scanned"} => NoDuplicates(CachedIds))
    /\ (pc = "scan_loop") ~> (pc = "scanned")

\* the scan has ended on a window that is its own child and holds the user
\* area and the box, each of which holds the other
C14_Witness ==
    /\ pc = "scanned"
    /\ faults = NoFaults
    /\ \E i \in 1..Len(screen) : screen[i] = current_window_id
    /\ {"usr", "box", "txtA"} \subseteq processed_ids

Range(seq) == {seq[i] : i \in 1..Len(seq)}

\* the ids the window leads to through the children of its containers
RECURSIVE reach(_, _)
reach(frontier, seen) ==
    IF frontier = {} THEN seen
    ELSE LET next == UNION {Range(ComponentOf(n, screen).children) :
                               n \in frontier} \ seen
         IN  reach(next, seen \cup next)

ReachableIds == reach({current_window_id}, {current_window_id})

\* the one property of faults.node whose read goes wrong
FaultyProps == faults.missing \cup faults.fails

CachedElement(id) ==
    LET hit == SelectSeq(all_elements(element_cache),
                         LAMBDA e : e.element_id = id)
    IN  hit[1]

\* the field of a cached element that holds what was read as property prop
\* carries no value read from the component
RecordedAbsent(e, prop) ==
    CASE prop = "Type" -> e.element_type = "Unknown"
      [] prop = "Text" -> e.text \in {None, <<>>}
      [] prop = "Tooltip" -> e.tooltip \in {None, <<>>}
      [] prop = "Name" -> e.name \in {None, <<>>}
      [] prop = "Changeable" -> e.changeable \in {"None", "False"}

\* the scan is over, and the read of one of the properties type, text,
\* tooltip, name, editable flag went wrong on a component the window leads
\* to, which has its four coordinates
OnePropertyFailed ==
    /\ pc = "scanned"
    /\ faults.node \in ReachableIds
    /\ FaultyProps \subseteq {"Type", "Text", "Tooltip", "Name", "Changeable"}
    /\ FaultyProps # {}
    /\ Coordinates \cap ComponentOf(faults.node, screen).missing = {}

\* C15: a failed read of one of a component's properties type, text,
\* tooltip, name, editable flag does not abort the scan (the call does not
\* raise) and does not lose the component: having its four coordinates it
\* is in the cache with the failed field absent, and its children have
\* been visited.
C15_PropertyFailureTolerated ==
    /\ (FaultyProps # {}
        /\ FaultyProps \subseteq {"Type", "Text", "Tooltip", "Name",
                                   "Changeable"}) => pc # "raised"
    /\ OnePropertyFailed =>
          /\ faults.node \in Range(CachedIds)
          /\ \A prop \in FaultyProps :
                RecordedAbsent(CachedElement(faults.node), prop)
          /\ Range(ComponentOf(faults.node, screen).children)
                \subseteq processed_ids

\* one of the four coordinates of the component is missing or unreadable
LacksBoundingBox(c) == \E attr \in Coordinates : raises(c, attr)

\* the children of a container that children(i) hands out
AccessibleChildren(c) ==
    IF c.container THEN {ch \in Range(c.children) : accessible(ch)} ELSE {}

\* C16: a component the scan has processed that lacks one of ScreenLeft,
\* ScreenTop, Width, Height is never in the cache, during the scan or after
\* it; if it is a container, every child its collection hands out has been
\* visited when the scan is over.
C16_NoBoundingBoxNotIndexed ==
    /\ \A id \in Range(CachedIds) :
          ~LacksBoundingBox(ComponentOf(id, screen))
    /\ pc = "scanned" =>
          \A id \in processed_ids :
             LET c == ComponentOf(id, screen)
             IN  LacksBoundingBox(c) =>
                    AccessibleChildren(c) \subseteq processed_ids

\* the user area, one coordinate of which cannot be read, is not in the
\* cache, and the box and the field it holds are
C16_Witness ==
    /\ pc = "scanned"
    /\ faults.node = "usr"
    /\ faults.fails \cap Coordinates # {}
    /\ "usr" \in processed_ids
    /\ "usr" \notin Range(CachedIds)
    /\ {"box", "txtA", "txtB"} \subseteq Range(CachedIds)

----------------------------------------------------------------------------
(* Properties of the cache across scans *)

\* the components the scan in progress has processed and found with their
\* four coordinates
PositionedVisited ==
    {id \in processed_ids : has_position(ComponentOf(id, screen))}

\* every cached element is what the scan in progress read of a component of
\* the window being scanned
CacheIsOfThisScan ==
    \A e \in Range(all_elements(element_cache)) :
       /\ e.element_id \in processed_ids
       /\ e.element_id \in ReachableIds
       /\ e = ElementInfo(e.element_id, e.element_type,
                          ComponentOf(e.element_id, screen))

\* C17: when a scan is over the cache holds the components that scan
\* visited and found with a position, each once and as that scan read it,
\* and nothing else: nothing cached for a window scanned before is left;
\* while a scan runs the cache holds only what that scan put there; when a
\* call has raised (the window or the root of the scan could not be read)
\* the cache is empty.
C17_CacheReplacedByScan ==
    /\ pc \in {"scan_loop", "scanned"} =>
          /\ CacheIsOfThisScan
          /\ NoDuplicates(CachedIds)
    /\ pc = "scanned" => Range(CachedIds) = PositionedVisited
    /\ pc = "raised" => element_cache = EmptyCache

\* the step sets _cache_window_id to the id of a window
GenerationSet ==
    /\ cache_window_id' # cache_window_id
    /\ cache_window_id' \in WindowIds

\* C18: _cache_window_id is None from the start of a scan until the loop of
\* the scan is over; it is set to a window id only by the step that follows
\* the end of the loop, to the id of the window that was scanned; and while
\* it is a window id the cache is not changed, so that the cache under a
\* window id is the one the finished scan of that window left (empty, or
\* starting with that window).
C18_GenerationSetAfterScan ==
    /\ [](pc \in {"scan_loop", "scanned"} => cache_window_id = NoWindowId)
    /\ [][GenerationSet =>
             /\ pc = "scanned"
             /\ queue = <<>>
             /\ cache_window_id' = current_window_id]_vars
    /\ [][cache_window_id' \in WindowIds =>
             element_cache' = element_cache]_vars
    /\ [](cache_window_id \in WindowIds /\ element_cache # EmptyCache =>
             CachedIds[1] = cache_window_id)

\* the scan of a window that was not the cached one is over and the id of
\* that window has been stored with the elements of the scan
C18_Witness ==
    /\ pc = "checked"
    /\ call_scans = 1
    /\ OtherWindowThanPrevCall
    /\ prev_call.scans = 1
    /\ cache_window_id = current_window_id
    /\ Len(CachedIds) >= 2

----------------------------------------------------------------------------
(* Properties of the alignment predicates (checked under SpecGeom) *)

\* C19: is_horizontally_aligned_with and is_vertically_aligned_with give
\* the same answer for (a, b, tolerance) and for (b, a, tolerance), for
\* every two positions and every tolerance.
C19_AlignmentSymmetric ==
    geom_out.called =>
       /\ geom_out.h_ab = geom_out.h_ba
       /\ geom_out.v_ab = geom_out.v_ba

\* two positions with different centres, one of them of even height, whose
\* centres are within the tolerance of each other vertically and not
\* horizontally: aligned horizontally, not aligned vertically
C19_Witness ==
    /\ geom_out.called
    /\ geom_out.h_ab
    /\ ~geom_out.v_ab
    /\ center_y(geom_in.a) < center_y(geom_in.b)
    /\ center_x(geom_in.a) > center_x(geom_in.b)
    /\ geom_in.a.height = 2
    /\ geom_in.tolerance >= 0

----------------------------------------------------------------------------
(* Order of the Content search (checked under SpecResolve) *)

\* the breadth-first order of a window whose children are leaves: the window,
\* then its children in order
ScanOrder == <<active_window_id>> \o screen

HasSearchedText(id) ==
    \E e \in CachedElements : e.element_id = id /\ e.text = strategy.a

\* the cached components with the searched text, in scan order
TextMatches == SelectSeq(ScanOrder, HasSearchedText)

\* C20: for a Content locator, when several cached elements have the text,
\* find_element returns the one of them that the scan visited first,
\* whatever the types of the elements and the target types of the call.
C20_ContentReturnsEarliestScanned ==
    (/\ pc = "done"
     /\ strategy.kind = "ContentLocator"
     /\ Len(TextMatches) >= 2)
        => result = ReturnId(TextMatches[1])

----------------------------------------------------------------------------
(* Order of the parser's rules (checked under SpecParse) *)

\* sub occurs in s at position i
OccursAt(s, sub, i) ==
    /\ i >= 1
    /\ i + Len(sub) - 1 <= Len(s)
    /\ \A k \in 1..Len(sub) : s[i + k - 1] = sub[k]

Occurs(s, sub) == \E i \in 1..Len(s) : OccursAt(s, sub, i)

\* the first occurrence of sub in s is at position i
FirstOccursAt(s, sub, i) ==
    /\ OccursAt(s, sub, i)
    /\ \A j \in 1..(i - 1) : ~OccursAt(s, sub, j)

\* s without its first n characters, trimmed
TrimmedFrom(s, n) == strip(SubSeq(s, n + 1, Len(s)), Whitespace)

\* the first n characters of s, trimmed
TrimmedUpTo(s, n) == strip(SubSeq(s, 1, n), Whitespace)

\* C24: on the trimmed input, a leading '=' gives Content of the trimmed
\* rest whatever the rest holds; otherwise a '>>' gives HLabelHLabel of the
\* trimmed halves around the first '>>' when both are non-empty, else a
\* ValueError, also when the string holds an '@'; otherwise an '@' is split
\* at its first occurrence (VLabel of the right part when the left is empty,
\* else HLabelVLabel of the two parts or an error); otherwise a non-empty
\* string is HLabel of the whole.
C24_ParserPriority ==
    LET s == strip(parse_in, Whitespace)
        leading_eq == s # <<>> /\ s[1] = "="
        has_arrow == Occurs(s, <<">", ">">>)
        has_at == Occurs(s, <<"@">>)
    IN  Parsed =>
          /\ leading_eq => parse_out = ContentLocator(TrimmedFrom(s, 1))
          /\ (~leading_eq /\ has_arrow) =>
                \A i \in 1..Len(s) : FirstOccursAt(s, <<">", ">">>, i) =>
                   LET lhs == TrimmedUpTo(s, i - 1)
                       rhs == TrimmedFrom(s, i + 1)
                   IN  IF lhs # <<>> /\ rhs # <<>>
                       THEN parse_out = HLabelHLabelLocator(lhs, rhs)
                       ELSE parse_out = Raise("ValueError")
          /\ (~leading_eq /\ ~has_arrow /\ has_at) =>
                \A i \in 1..Len(s) : FirstOccursAt(s, <<"@">>, i) =>
                   LET lhs == TrimmedUpTo(s, i - 1)
                       rhs == TrimmedFrom(s, i)
                   IN  IF lhs = <<>> /\ rhs # <<>>
                       THEN parse_out = VLabelLocator(rhs)
                       ELSE \/ parse_out.kind \in ParseErrors
                            \/ parse_out =
                                 HLabelVLabelLocator(strip(lhs, {"\""}),
                                                     strip(rhs, {"\""}))
          /\ (~leading_eq /\ ~has_arrow /\ ~has_at /\ s # <<>>) =>
                parse_out = HLabelLocator(s)

\* a string with '>>' before '@' is an HLabelHLabel locator whose right
\* label is the '@'
C24_Witness ==
    /\ parse_in = <<"a", ">", ">", "@">>
    /\ parse_out = HLabelHLabelLocator(<<"a">>, <<"@">>)

----------------------------------------------------------------------------
(* Quotes around labels (checked under SpecParse) *)

\* the number of double quotes in s
RECURSIVE QuoteCount(_)
QuoteCount(s) ==
    IF s = <<>> THEN 0
    ELSE (IF Head(s) = "\"" THEN 1 ELSE 0) + QuoteCount(Tail(s))

\* a pure-digit string between two double quotes
IsQuotedNumber(x) ==
    /\ Len(x) >= 3
    /\ x[1] = "\""
    /\ x[Len(x)] = "\""
    /\ isdigit(SubSeq(x, 2, Len(x) - 1))

Unquoted(x) == SubSeq(x, 2, Len(x) - 1)

\* what the label of one side of '@' must be: the number of a quoted
\* number, and anyway the side without the quotes at its ends
IsLabelOfSide(label, side) ==
    /\ IsQuotedNumber(side) => label = Unquoted(side)
    /\ label = strip(side, {"\""})

\* C25: a quoted number on a side of '@' is not an index: with the other
\* side not a bare number the parser yields HLabelVLabel, whose labels are
\* the sides without their surrounding quotes (the number for a quoted
\* number); the labels of Content, HLabel, VLabel and HLabelHLabel keep
\* every quote of the input.
C25_QuotesStrippedInHLabelVLabelOnly ==
    LET s == strip(parse_in, Whitespace)
        lhs == strip(split1(s, <<"@">>)[1], Whitespace)
        rhs == strip(split1(s, <<"@">>)[2], Whitespace)
    IN  Parsed =>
          /\ (/\ IsAtLocator(s)
              /\ IsQuotedNumber(lhs) \/ IsQuotedNumber(rhs)
              /\ lhs # <<>> /\ ~isdigit(lhs)
              /\ rhs # <<>> /\ ~isdigit(rhs))
                => parse_out.kind = "HLabelVLabelLocator"
          /\ parse_out.kind = "HLabelVLabelLocator" =>
                /\ IsLabelOfSide(parse_out.a, lhs)
                /\ IsLabelOfSide(parse_out.b, rhs)
          /\ parse_out.kind \in {"ContentLocator", "HLabelLocator",
                                 "VLabelLocator", "HLabelHLabelLocator"} =>
                QuoteCount(parse_out.a) + QuoteCount(parse_out.b)
                   = QuoteCount(s)

\* "5"@a is the HLabelVLabel locator of the labels 5 and a
C25_Witness ==
    /\ parse_in = Str_q5atA
    /\ parse_out = HLabelVLabelLocator(<<"5">>, <<"a">>)

\* C30: every label of an HLabel, VLabel, HLabelVLabel or HLabelHLabel
\* strategy the parser returns is a non-empty string.
C30_ParsedLabelsNonEmpty ==
    Parsed =>
       /\ parse_out.kind \in {"HLabelLocator", "VLabelLocator"} =>
             parse_out.a # <<>>
       /\ parse_out.kind \in {"HLabelVLabelLocator", "HLabelHLabelLocator"} =>
             parse_out.a # <<>> /\ parse_out.b # <<>>

----------------------------------------------------------------------------
(* Uniqueness of the cached ids (checked under SpecScan) *)

\* the number of cached elements with the id
TimesCached(id) ==
    Cardinality({i \in 1..Len(CachedIds) : CachedIds[i] = id})

\* C29: during and after a scan no component id is cached more than once,
\* whatever type list it was put in, also for a component that several
\* containers hold or that holds one of its ancestors; and no type has two
\* lists.
C29_IdsCachedOnce ==
    /\ \A id \in ScanNodes : TimesCached(id) <= 1
    /\ Cardinality(Range(CachedIds)) = Len(CachedIds)
    /\ \A i, j \in 1..Len(element_cache) :
          element_cache[i].type = element_cache[j].type => i = j

\* a scan is over in which the window was its own child and the field txtA
\* was a child of the window, of the user area and of the box
C29_Witness ==
    /\ pc = "scanned"
    /\ \E i \in 1..Len(screen) : screen[i] = current_window_id
    /\ \E i \in 1..Len(screen) : screen[i] = "txtA"
    /\ \E i \in 1..Len(screen) : screen[i] = "usr"
    /\ TimesCached("txtA") = 1
    /\ TimesCached(current_window_id) = 1
    /\ {"usr", "box", "txtB"} \subseteq Range(CachedIds)

----------------------------------------------------------------------------
(* Properties of the label strategies on forms (checked under SpecLayout) *)

\* the labels a label strategy looks up as anchors
AnchorLabels ==
    CASE strategy.kind \in {"HLabelLocator", "VLabelLocator"} -> {strategy.a}
      [] strategy.kind = "HLabelVLabelLocator" -> {strategy.a, strategy.b}
      [] OTHER -> {}

\* the elements the call in progress has taken as anchors
AnchorsUsed ==
    {e \in CachedElements :
        \E l \in AnchorLabels : find_label_element(element_cache, l) = <<e>>}

\* C21: in the HLabel, VLabel and HLabelVLabel strategies the element found
\* by the label's text and used as anchor of a returned element is a
\* GuiLabel or a text field that is not changeable.
C21_AnchorNotEditable ==
    (pc = "done" /\ ReturnedAnId) =>
        \A e \in AnchorsUsed :
           \/ e.element_type = "GuiLabel"
           \/ (/\ e.element_type \in {"GuiTextField", "GuiCTextField"}
               /\ e.changeable = "False")

\* the cached elements found as h-label and v-label of the call
HLabelElem == find_label_element(element_cache, strategy.a)
VLabelElem == find_label_element(element_cache, strategy.b)

\* the centre of an element
CentreX(e) == e.position.left + (e.position.width \div 2)
CentreY(e) == e.position.top + (e.position.height \div 2)

Within(x, y, tolerance) == x - y <= tolerance /\ y - x <= tolerance

\* the allowed-type elements on the row of h, in the column of v, not left
\* of h's right edge and not above v's bottom edge
InQuadrant(h, v) ==
    {e \in AllowedElements :
        /\ Within(CentreY(e), CentreY(h), 5)
        /\ Within(CentreX(e), CentreX(v), 8)
        /\ e.position.left >= h.position.left + h.position.width
        /\ e.position.top >= v.position.top + v.position.height}

\* squared distance from the centre of e to (h.right, v.bottom)
CrossDistance(e, h, v) ==
    LET dx == CentreX(e) - (h.position.left + h.position.width)
        dy == CentreY(e) - (v.position.top + v.position.height)
    IN  dx * dx + dy * dy

\* C22: an HLabelVLabel call returns None when one of the labels is not
\* found or no allowed-type element is in the quadrant; otherwise it
\* returns an element of the quadrant whose squared distance to the
\* cross-point is the least of the quadrant.
C22_HLabelVLabelNearestInQuadrant ==
    (pc = "done" /\ strategy.kind = "HLabelVLabelLocator") =>
        IF HLabelElem = NoElement \/ VLabelElem = NoElement
        THEN result = ReturnNone
        ELSE LET h == HLabelElem[1]
                 v == VLabelElem[1]
             IN  IF InQuadrant(h, v) = {}
                 THEN result = ReturnNone
                 ELSE \E e \in InQuadrant(h, v) :
                         /\ result = ReturnId(e.element_id)
                         /\ \A f \in InQuadrant(h, v) :
                               CrossDistance(e, h, v) <= CrossDistance(f, h, v)

\* tC, scanned first, and tA are both in the quadrant of L and M; tA, the
\* nearer to the cross-point, is returned
C22_Witness ==
    /\ pc = "done"
    /\ strategy.kind = "HLabelVLabelLocator"
    /\ screen = <<"tC", "tA", "lblM", "lblL">>
    /\ target_element_types = <<"GuiTextField">>
    /\ Cardinality(InQuadrant(HLabelElem[1], VLabelElem[1])) = 2
    /\ result = ReturnId("tA")

\* right and bottom edge of an element
RightEdge(e) == e.position.left + e.position.width
BottomEdge(e) == e.position.top + e.position.height

\* the allowed-type elements on the row of the anchor and at most 25 to the
\* right of it
RowRightOf(anchor) ==
    {e \in AllowedElements :
        /\ Within(CentreY(e), CentreY(anchor), 5)
        /\ e.position.left - RightEdge(anchor) \in 0..25}

\* the allowed-type elements in the column of the anchor and at most 25
\* below it
ColumnBelow(anchor) ==
    {e \in AllowedElements :
        /\ Within(CentreX(e), CentreX(anchor), 8)
        /\ e.position.top - BottomEdge(anchor) \in 0..25}

\* place of an element in the candidate enumeration: the place of its type
\* in the effective allowed types, then its place in the scan
TypeIndex(e) ==
    LET eff == effective_target_types(target_element_types)
    IN  CHOOSE i \in 1..Len(eff) :
           /\ eff[i] = e.element_type
           /\ \A j \in 1..(i - 1) : eff[j] # e.element_type

ScanIndex(e) == CHOOSE i \in 1..Len(ScanOrder) : ScanOrder[i] = e.element_id

EnumeratedBefore(e, f) ==
    \/ TypeIndex(e) < TypeIndex(f)
    \/ TypeIndex(e) = TypeIndex(f) /\ ScanIndex(e) < ScanIndex(f)

\* the anchor of an HLabelHLabel call: the label element with the left text,
\* else the first allowed-type element with it
LeftAnchor ==
    IF HLabelElem # NoElement THEN HLabelElem
    ELSE LET with_text == {e \in AllowedElements : e.text = strategy.a}
         IN  IF with_text = {} THEN NoElement
             ELSE <<CHOOSE e \in with_text :
                       \A f \in with_text \ {e} : EnumeratedBefore(e, f)>>

\* the elements among which a label strategy chooses, when its anchors are
\* found
Qualifying ==
    CASE strategy.kind = "HLabelLocator" /\ HLabelElem # NoElement ->
            RowRightOf(HLabelElem[1])
      [] strategy.kind = "VLabelLocator" /\ HLabelElem # NoElement ->
            ColumnBelow(HLabelElem[1])
      [] /\ strategy.kind = "HLabelVLabelLocator"
         /\ HLabelElem # NoElement
         /\ VLabelElem # NoElement ->
            InQuadrant(HLabelElem[1], VLabelElem[1])
      [] strategy.kind = "HLabelHLabelLocator" /\ LeftAnchor # NoElement ->
            {e \in RowRightOf(LeftAnchor[1]) :
                e.text = strategy.b \/ e.tooltip = strategy.b}
      [] OTHER -> {}

\* the distance the strategy minimises
StrategyDistance(e) ==
    CASE strategy.kind = "HLabelLocator" ->
            e.position.left - RightEdge(HLabelElem[1])
      [] strategy.kind = "VLabelLocator" ->
            e.position.top - BottomEdge(HLabelElem[1])
      [] strategy.kind = "HLabelVLabelLocator" ->
            CrossDistance(e, HLabelElem[1], VLabelElem[1])
      [] strategy.kind = "HLabelHLabelLocator" ->
            e.position.left - RightEdge(LeftAnchor[1])

Nearest == {e \in Qualifying : \A f \in Qualifying :
                                  StrategyDistance(e) <= StrategyDistance(f)}

\* C23: when several qualifying candidates of an HLabel, VLabel,
\* HLabelVLabel or HLabelHLabel call are at the least distance, the call
\* returns the one of them that comes first in the candidate enumeration:
\* types in the order of the effective allowed types, scan order inside a
\* type.
C23_TieGoesToFirstEnumerated ==
    (pc = "done" /\ Cardinality(Nearest) >= 2) =>
        \E e \in Nearest :
           /\ result = ReturnId(e.element_id)
           /\ \A f \in Nearest \ {e} : EnumeratedBefore(e, f)

\* tC and tA, two text fields with the same left edge on the row of L, tC
\* scanned first: tC is returned
C23_Witness ==
    /\ pc = "done"
    /\ strategy.kind = "HLabelLocator"
    /\ screen = <<"tC", "tA", "lblL">>
    /\ Nearest = {e \in CachedElements : e.element_id \in {"tA", "tC"}}
    /\ result = ReturnId("tC")

\* C26: an HLabelHLabel call takes as left anchor the label element with
\* the left text or, when there is none, the first allowed-type element
\* with that text; it returns None when there is no anchor or no
\* allowed-type element has the right text or tooltip on the anchor's row
\* within 25 to its right; otherwise it returns such an element with the
\* least left - anchor.right.
C26_HLabelHLabelNearestRightOfAnchor ==
    (pc = "done" /\ strategy.kind = "HLabelHLabelLocator") =>
        IF LeftAnchor = NoElement \/ Qualifying = {}
        THEN result = ReturnNone
        ELSE \E e \in Nearest : result = ReturnId(e.element_id)

\* no label element has the text L: the button btnL is the anchor, and the
\* button tD at its right edge is returned, not the field tA to its left
C26_Witness ==
    /\ pc = "done"
    /\ strategy.kind = "HLabelHLabelLocator"
    /\ screen = <<"btnL", "lblM", "tA", "tD">>
    /\ target_element_types = NoneTypes
    /\ HLabelElem = NoElement
    /\ LeftAnchor[1].element_id = "btnL"
    /\ result = ReturnId("tD")

\* C27: a VLabel call whose label element is found returns an allowed-type
\* element of the label's column (centres at most 8 apart horizontally)
\* that starts 0 to 25 below the label's bottom edge, with the least
\* distance below it; it returns None when there is no such element or no
\* label element.
C27_VLabelNearestBelow ==
    (pc = "done" /\ strategy.kind = "VLabelLocator") =>
        IF HLabelElem = NoElement
        THEN result = ReturnNone
        ELSE LET label == HLabelElem[1]
                 below == ColumnBelow(label)
             IN  IF below = {}
                 THEN result = ReturnNone
                 ELSE \E e \in below :
                         /\ result = ReturnId(e.element_id)
                         /\ \A f \in below :
                               e.position.top - BottomEdge(label)
                                  <= f.position.top - BottomEdge(label)

\* under the label M the check box tB, 15 below, is returned; tTall starts
\* above M's bottom edge and tLow is 26 below
C27_Witness ==
    /\ pc = "done"
    /\ strategy.kind = "VLabelLocator"
    /\ screen = <<"tTall", "tLow", "tB", "lblM">>
    /\ target_element_types = NoneTypes
    /\ ColumnBelow(HLabelElem[1])
          = {e \in CachedElements : e.element_id = "tB"}
    /\ result = ReturnId("tB")

\* C28: an id returned by find_element is the id of an element of the
\* cache, and for the HLabel, VLabel, HLabelVLabel and HLabelHLabel
\* strategies the type of that element is one of the effective allowed
\* types (target_element_types, DEFAULT_TARGET_TYPES when it is None).
C28_ReturnedIdIsCachedAndAllowed ==
    (pc = "done" /\ ReturnedAnId) =>
        /\ \E e \in CachedElements : e.element_id = result.value
        /\ strategy.kind # "ContentLocator" =>
              \A e \in CachedElements :
                 e.element_id = result.value =>
                    \E i \in 1..Len(effective_target_types(target_element_types)) :
                       effective_target_types(target_element_types)[i]
                          = e.element_type

\* with the allowed types GuiCheckBox and GuiButton the button tD is
\* returned for the label L although the text field tA is nearer
C28_Witness ==
    /\ pc = "done"
    /\ strategy.kind = "HLabelLocator"
    /\ screen = <<"lblL", "tA", "tD">>
    /\ target_element_types = <<"GuiCheckBox", "GuiButton">>
    /\ result = ReturnId("tD")

====
